---- MODULE Spec2Model ----
(***************************************************************************)
(* The signalling relay of clear-connect (src/server/src/server.ts): the   *)
(* room map, the lazy expiry of getRoom, the periodic cleanup, and the     *)
(* request handlers of /v1/rooms/{token}/(offer|answer|status).            *)
(*                                                                         *)
(* Node runs every callback to completion, so one action is one callback:  *)
(* the synchronous head of a request handler (up to its await of readJson, *)
(* or to its response), the 'data'/'end' events of a request body together *)
(* with the continuation of the handler they resume, one run of cleanup,   *)
(* and the passing of time between callbacks.                              *)
(*                                                                         *)
(* Scope: the requests modelled are those checkRate admits (the per-IP     *)
(* counter of server.ts:55-69 is not part of the room state) and that use  *)
(* the methods of the five room operations.                                *)
(***************************************************************************)
EXTENDS Integers, FiniteSets, Sequences, TLC

\* ------------------------------------------------------------- constants

ROOM_TTL_MS == 120000

MAX_BODY_SIZE == 1000000

\* ---------------------------------------------------------------- bounds

\* Number of requests a behaviour issues.
MaxReqs == 3

\* Number of rooms a behaviour creates.
MaxRooms == 1

\* The instants at which callbacks run (values of Date.now()): a room
\* created at 0 is at its ttl at 120000 and past it at 120001; a room created
\* at 120000 is 1 ms old at 120001.
Clock == {0, 120000, 120001}

Reqs == 1..MaxReqs

\* randomUUID() never repeats: the k-th room gets token k.
Tokens == 1..MaxRooms

\* A well-formed token that create-room never returns.
BogusToken == MaxRooms + 1

\* ------------------------------------------------------------ JSON values

\* JavaScript's undefined (a property that is missing).
Undefined == "undefined"

Docs == {"A", "B"}

\* The JSON text of the object {sdp: d}.
ObjText(d) == IF d = "A" THEN "{\"sdp\":\"A\"}" ELSE "{\"sdp\":\"B\"}"

\* JSON.stringify({sdp: v}): a property whose value is undefined is left out.
JSONStringify(v) == IF v = Undefined THEN "{}" ELSE ObjText(v)

\* JSON.parse(text): [ok, t, sdp]; ok = FALSE is the SyntaxError it throws.
\* t is the type of the value, sdp its sdp property (Undefined when missing).
JSONParse(text) ==
    IF \E d \in Docs : ObjText(d) = text
      THEN [ok |-> TRUE, t |-> "object",
            sdp |-> CHOOSE d \in Docs : ObjText(d) = text]
    ELSE IF text = "{}" THEN [ok |-> TRUE, t |-> "object", sdp |-> Undefined]
    ELSE IF text = "null" THEN [ok |-> TRUE, t |-> "null", sdp |-> Undefined]
    ELSE [ok |-> FALSE, t |-> "error", sdp |-> Undefined]

\* JavaScript truthiness of a parsed value / of a string or undefined.
Truthy(v) == v.t = "object"

TruthyStr(s) == s # Undefined /\ s # ""

\* The bodies a caller sends: text and length in characters.
Bodies ==
    { [text |-> ObjText(d), len |-> 11] : d \in Docs } \cup
    { [text |-> "", len |-> 0],
      [text |-> "{}", len |-> 2],
      [text |-> "{sdp", len |-> 4],
      [text |-> "null", len |-> 4],
      [text |-> ObjText("A"), len |-> MAX_BODY_SIZE + 1] }

NoBody == [text |-> "", len |-> 0]

\* ------------------------------------------------------------------ state

VARIABLES
    now,      \* Date.now()
    rooms,    \* the keys of the Map rooms
    heap,     \* the Room object made for each token (kept while referenced)
    req,      \* the requests: what was sent, where the handler is, the response
    cl        \* the browser pages running the client (src/client/src/main.ts)

vars == <<now, rooms, heap, req, cl>>

NoRoom == [state |-> "none", offerSDP |-> Undefined, answerSDP |-> Undefined,
           createdAt |-> 0, ttlMs |-> 0]

\* A request: the operation, the token of its path, the body readJson is
\* given (NoBody until the handler reads it), where the handler is ("idle":
\* not yet sent, "reading": awaiting readJson, "done": returned), and the
\* response: its status (0: none sent), its text, and for a status response
\* the state and expiresInSec of its JSON.
NoReq == [op |-> "none", tok |-> BogusToken, body |-> NoBody,
          pc |-> "idle", status |-> 0, rtext |-> "", rstate |-> "",
          rexp |-> 0]

\* The pages: each sends at most one PUT, request c being that of page c.
Clients == Reqs

\* A page: the path it was opened on (role: "initiator" for /, "receiver"
\* for /room/{token}, "off" when the page is not open), where its code is
\* (at), the text of the status element (ui), roomToken (token), the globals
\* pc and localStream (pcv, lsv: "null" or the object), whether an
\* RTCPeerConnection is open and whether the tracks of the acquired stream
\* are running (connOpen, micLive), and the locals of poll: delay, end, the
\* time it began (since), the 404 responses so far (misses), the time its
\* timer is due (wakeAt), the status of the last response (last), how it
\* ended (outcome: "none", "ok", "timeout", "error") and the sdp it returned
\* (got); endedInPoll records that the handler of endBtn ran while poll was
\* pending.
NoClient == [role |-> "off", at |-> "init", ui |-> "", token |-> BogusToken,
             pcv |-> "null", lsv |-> "null", connOpen |-> FALSE,
             micLive |-> FALSE, delay |-> 0, end |-> 0, since |-> 0,
             misses |-> 0, wakeAt |-> 0, last |-> 0, outcome |-> "none",
             got |-> Undefined, endedInPoll |-> FALSE]

\* The tokens create-room has returned.
Issued == {t \in Tokens : heap[t].state # "none"}

\* The tokens a caller sends: one create-room returned, or another.
ReqTokens == Issued \cup {BogusToken}

Init ==
    /\ now = 0
    /\ rooms = {}
    /\ heap = [t \in Tokens |-> NoRoom]
    /\ req = [r \in Reqs |-> NoReq]
    /\ cl = [c \in Clients |-> NoClient]

\* ------------------------------------------------------------- Room Store

\* The expiry test of getRoom and cleanup.
Expired(room) == now - room.createdAt > room.ttlMs

\* getRoom without its expiry test: a room is found until cleanup deletes it.
GetRoomFound_NoExpiryTest(tok) == tok \in rooms

\* getRoom(token) returns a room.
GetRoomFound(tok) == tok \in rooms /\ ~Expired(heap[tok])

\* The Map after getRoom(token): an expired room is deleted.
GetRoomEvict(tok) ==
    IF tok \in rooms /\ Expired(heap[tok]) THEN rooms \ {tok} ELSE rooms

\* The token randomUUID() returns next.
NewToken == CHOOSE t \in Tokens : t \notin Issued /\
                                  \A u \in Tokens : u < t => u \in Issued

\* The handler of POST /v1/rooms: the room is made and put into the Map.
RoomMade ==
    /\ Cardinality(Issued) < MaxRooms
    /\ heap' = [heap EXCEPT ![NewToken] =
                  [state |-> "created", offerSDP |-> Undefined,
                   answerSDP |-> Undefined, createdAt |-> now,
                   ttlMs |-> ROOM_TTL_MS]]
    /\ rooms' = rooms \cup {NewToken}

\* POST /v1/rooms.
CreateRoom == RoomMade /\ UNCHANGED <<now, req, cl>>

\* cleanup() deleting a room from the instant now - createdAt = ttlMs on.
Cleanup_AtTtl ==
    /\ \E t \in rooms : now - heap[t].createdAt >= heap[t].ttlMs
    /\ rooms' = {t \in rooms : ~(now - heap[t].createdAt >= heap[t].ttlMs)}
    /\ UNCHANGED <<now, heap, req, cl>>

\* cleanup(), run by setInterval.
Cleanup ==
    /\ \E t \in rooms : Expired(heap[t])
    /\ rooms' = {t \in rooms : ~Expired(heap[t])}
    /\ UNCHANGED <<now, heap, req, cl>>

\* Time passes between callbacks.
Tick ==
    /\ \E t \in Clock : t > now /\ now' = t
    /\ UNCHANGED <<rooms, heap, req, cl>>

\* ------------------------------------------------------- request handlers

\* Requests arrive in the order of their numbers.
CanArrive(r) ==
    /\ req[r].pc = "idle"
    /\ IF r = 1 THEN TRUE ELSE req[r - 1].pc # "idle"

Arrived(op, tok) == [NoReq EXCEPT !.op = op, !.tok = tok]

\* The handler reaches "await readJson(req, res)": the body is read from here.
AwaitReadJson(q, body) == [q EXCEPT !.pc = "reading", !.body = body]

\* sendStatus(res, status): a response with no body.
SendStatus(q, status) == [q EXCEPT !.pc = "done", !.status = status]

\* sendJson(res, 200, {sdp: v}).
SendSdp(q, v) ==
    [q EXCEPT !.pc = "done", !.status = 200, !.rtext = JSONStringify(v)]

\* expiresInSec rounded up (Math.ceil) instead of down.
ExpiresInSec_RoundsUp(room) ==
    LET ms == room.createdAt + room.ttlMs - now
    IN IF (ms + 999) \div 1000 > 0 THEN (ms + 999) \div 1000 ELSE 0

\* Math.floor(x / 1000) is \div for x >= 0 and the result is not used below 0.
ExpiresInSec(room) ==
    LET ms == room.createdAt + room.ttlMs - now
    IN IF ms \div 1000 > 0 THEN ms \div 1000 ELSE 0

\* PUT .../offer up to the await of readJson.
PutOfferHead(q, body) ==
    IF ~GetRoomFound(q.tok) THEN SendStatus(q, 404)
    ELSE IF heap[q.tok].state # "created" THEN SendStatus(q, 409)
    ELSE AwaitReadJson(q, body)

\* PUT .../answer testing only that no answer is stored yet.
PutAnswerHead_NoStateCheck(q, body) ==
    IF ~GetRoomFound(q.tok) THEN SendStatus(q, 404)
    ELSE IF TruthyStr(heap[q.tok].answerSDP) THEN SendStatus(q, 409)
    ELSE AwaitReadJson(q, body)

\* PUT .../answer up to the await of readJson.
PutAnswerHead(q, body) ==
    IF ~GetRoomFound(q.tok) THEN SendStatus(q, 404)
    ELSE IF heap[q.tok].state # "offer_set" \/ TruthyStr(heap[q.tok].answerSDP)
      THEN SendStatus(q, 409)
    ELSE AwaitReadJson(q, body)

PutOffer(r) ==
    /\ CanArrive(r)
    /\ \E tok \in ReqTokens, body \in Bodies :
         req' = [req EXCEPT ![r] = PutOfferHead(Arrived("publishOffer", tok), body)]
         /\ rooms' = GetRoomEvict(tok)
    /\ UNCHANGED <<now, heap, cl>>

PutAnswer(r) ==
    /\ CanArrive(r)
    /\ \E tok \in ReqTokens, body \in Bodies :
         req' = [req EXCEPT ![r] = PutAnswerHead(Arrived("publishAnswer", tok), body)]
         /\ rooms' = GetRoomEvict(tok)
    /\ UNCHANGED <<now, heap, cl>>

\* GET .../offer.
GetOfferResp(q) ==
    IF ~GetRoomFound(q.tok) THEN SendStatus(q, 404)
    ELSE IF heap[q.tok].state \in {"offer_set", "answer_set"}
      THEN SendSdp(q, heap[q.tok].offerSDP)
    ELSE SendStatus(q, 404)

\* GET .../answer.
GetAnswerResp(q) ==
    IF ~GetRoomFound(q.tok) THEN SendStatus(q, 404)
    ELSE IF heap[q.tok].state = "answer_set"
      THEN SendSdp(q, heap[q.tok].answerSDP)
    ELSE SendStatus(q, 404)

\* GET .../status answering for a room it did not find with the state
\* 'expired' of the Room type.
GetStatusResp_ReportsExpired(q) ==
    IF ~GetRoomFound(q.tok)
      THEN [q EXCEPT !.pc = "done", !.status = 200, !.rstate = "expired"]
    ELSE [q EXCEPT !.pc = "done", !.status = 200,
                   !.rstate = heap[q.tok].state,
                   !.rexp = ExpiresInSec(heap[q.tok])]

\* GET .../status.
GetStatusResp(q) ==
    IF ~GetRoomFound(q.tok) THEN SendStatus(q, 404)
    ELSE [q EXCEPT !.pc = "done", !.status = 200,
                   !.rstate = heap[q.tok].state,
                   !.rexp = ExpiresInSec(heap[q.tok])]

GetOffer(r) ==
    /\ CanArrive(r)
    /\ \E tok \in ReqTokens :
         req' = [req EXCEPT ![r] = GetOfferResp(Arrived("readOffer", tok))]
         /\ rooms' = GetRoomEvict(tok)
    /\ UNCHANGED <<now, heap, cl>>

GetAnswer(r) ==
    /\ CanArrive(r)
    /\ \E tok \in ReqTokens :
         req' = [req EXCEPT ![r] = GetAnswerResp(Arrived("readAnswer", tok))]
         /\ rooms' = GetRoomEvict(tok)
    /\ UNCHANGED <<now, heap, cl>>

GetStatus(r) ==
    /\ CanArrive(r)
    /\ \E tok \in ReqTokens :
         req' = [req EXCEPT ![r] = GetStatusResp(Arrived("status", tok))]
         /\ rooms' = GetRoomEvict(tok)
    /\ UNCHANGED <<now, heap, cl>>

\* ----------------------------------------------------------------- readJson

\* The 'data' event that takes data.length over MAX_BODY_SIZE: 413, the
\* request is destroyed, the promise resolves to null and the handler
\* returns at "if (!body) return".
BodyTooLarge(r) ==
    /\ req[r].pc = "reading"
    /\ req[r].body.len > MAX_BODY_SIZE
    /\ req' = [req EXCEPT ![r] = SendStatus(req[r], 413)]
    /\ UNCHANGED <<now, rooms, heap, cl>>

\* What the 'end' event resolves the promise of readJson to.
\* data ? JSON.parse(data) : {}
ReadJsonValue(body) == IF body.text # "" THEN JSONParse(body.text) ELSE JSONParse("{}")

\* The room after the write of the PUT handler that was awaiting.
PutWrite(q, room, sdp) ==
    IF q.op = "publishOffer"
      THEN [room EXCEPT !.offerSDP = sdp, !.state = "offer_set"]
      ELSE [room EXCEPT !.answerSDP = sdp, !.state = "answer_set"]

\* The 'end' event of a body within the size limit, and the rest of the
\* handler: a SyntaxError sends 400 and resolves to null; a falsy value makes
\* the handler return; otherwise the room object the handler holds is written
\* and 204 is sent.
BodyEnd(r) ==
    /\ req[r].pc = "reading"
    /\ req[r].body.len <= MAX_BODY_SIZE
    /\ LET q == req[r]
           v == ReadJsonValue(q.body)
       IN IF ~v.ok
            THEN /\ req' = [req EXCEPT ![r] = SendStatus(q, 400)]
                 /\ heap' = heap
          ELSE IF ~Truthy(v)
            THEN /\ req' = [req EXCEPT ![r].pc = "done"]
                 /\ heap' = heap
          ELSE /\ heap' = [heap EXCEPT ![q.tok] = PutWrite(q, heap[q.tok], v.sdp)]
               /\ req' = [req EXCEPT ![r] = SendStatus(q, 204)]
    /\ UNCHANGED <<now, rooms, cl>>

\* ------------------------------------------------------------ specification

\* Every callback but create-room.
Serve ==
    \/ Cleanup
    \/ Tick
    \/ \E r \in Reqs : PutOffer(r)
    \/ \E r \in Reqs : PutAnswer(r)
    \/ \E r \in Reqs : GetOffer(r)
    \/ \E r \in Reqs : GetAnswer(r)
    \/ \E r \in Reqs : GetStatus(r)
    \/ \E r \in Reqs : BodyTooLarge(r)
    \/ \E r \in Reqs : BodyEnd(r)

Next == CreateRoom \/ Serve

Spec == Init /\ [][Next]_vars

\* The relay right after create-room and a successful publishOffer of
\* document "A" (CreateRoom, PutOffer, BodyEnd at time 0), the requests that
\* led there not counted among Reqs.
InitOffered ==
    /\ now = 0
    /\ rooms = {1}
    /\ heap = [t \in Tokens |->
                 IF t = 1
                   THEN [state |-> "offer_set", offerSDP |-> "A",
                         answerSDP |-> Undefined, createdAt |-> 0,
                         ttlMs |-> ROOM_TTL_MS]
                   ELSE NoRoom]
    /\ req = [r \in Reqs |-> NoReq]
    /\ cl = [c \in Clients |-> NoClient]

SpecOffered == InitOffered /\ [][Serve]_vars

\* ------------------------------------------------------------------ client
\* src/client/src/main.ts. One action is one resumption of startInitiator or
\* startReceiver: from the completion of what it awaited to its next fetch,
\* getUserMedia or timer (the local WebRTC calls on the way are taken to
\* succeed with a valid description).

CLIENT_ROOM_TTL_MS == 120000

POLL_BASE_MS == 500

POLL_CAP_MS == 2000

Min(a, b) == IF a < b THEN a ELSE b

Max(a, b) == IF a > b THEN a ELSE b

\* cleanup(): closes the connection that pc holds and stops the tracks of the
\* stream that localStream holds, and sets both to null.
Cleaned(k) ==
    [k EXCEPT !.connOpen = IF k.pcv # "null" THEN FALSE ELSE @,
              !.pcv = "null",
              !.micLive = IF k.lsv # "null" THEN FALSE ELSE @,
              !.lsv = "null"]

\* The text shown for an error thrown by poll.
FailureText(why) == IF why = "timeout" THEN "Link expired" ELSE "Connection failed"

\* The catch block around poll, for an error with this message:
\* startInitiator shows the text, calls cleanup() and returns; startReceiver
\* shows the text and returns.
Caught(k, message) ==
    LET u == [k EXCEPT !.ui = FailureText(message), !.at = "end"]
    IN IF k.role = "initiator" THEN Cleaned(u) ELSE u

\* poll throws new Error(why).
PollFailed(k, why) == Caught([k EXCEPT !.outcome = why], why)

\* The head of the loop of poll at time t: while (Date.now() < end) fetch.
PollLoop(k, t) ==
    IF t < k.end THEN [k EXCEPT !.at = "fetching"] ELSE PollFailed(k, "timeout")

\* poll(url, ROOM_TTL_MS) is called at time t.
PollBegin(k, t) ==
    PollLoop([k EXCEPT !.delay = POLL_BASE_MS, !.end = t + CLIENT_ROOM_TTL_MS,
                       !.since = t, !.misses = 0], t)

\* poll returned the document with this sdp: startInitiator (where got is
\* ans.sdp) sets it as the remote description of pc (a TypeError, caught, when
\* pc is null); startReceiver makes its connection, sets the document as its
\* remote description, makes its answer and sends PUT answer.
PollReturned(k, doc) ==
    IF k.role = "initiator"
      THEN IF k.pcv = "null"
             THEN Caught([k EXCEPT !.got = doc], "TypeError")
             ELSE [k EXCEPT !.got = doc, !.ui = "Establishing connection...",
                            !.at = "established"]
      ELSE [k EXCEPT !.pcv = "conn", !.connOpen = TRUE, !.at = "putAnswer"]

\* A retry of every response that is not 200, not only of 404.
PollResponse_RetriesErrors(k, status, doc, t) ==
    IF status = 200
      THEN PollReturned([k EXCEPT !.last = 200, !.outcome = "ok"], doc)
    ELSE [k EXCEPT !.last = status, !.misses = @ + 1, !.at = "sleeping",
                   !.wakeAt = t + k.delay]

\* The fetch of poll completes at time t with this status (and, for 200,
\* this sdp): 200 returns, 404 starts the timer, anything else throws.
PollResponse(k, status, doc, t) ==
    IF status = 200
      THEN PollReturned([k EXCEPT !.last = 200, !.outcome = "ok"], doc)
    ELSE IF status # 404
      THEN PollFailed([k EXCEPT !.last = status], "error")
    ELSE [k EXCEPT !.last = 404, !.misses = @ + 1, !.at = "sleeping",
                   !.wakeAt = t + k.delay]

\* The delay after a miss tripled instead of doubled.
NextDelay_Tripled(d) == Min(d * 3, POLL_CAP_MS)

\* delay = Math.min(delay * 2, 2000)
NextDelay(d) == Min(d * 2, POLL_CAP_MS)

\* A loop that tests Date.now() <= end.
PollWoken_AtEnd(k, t) ==
    LET u == [k EXCEPT !.delay = NextDelay(k.delay)]
    IN IF t <= u.end THEN [u EXCEPT !.at = "fetching"] ELSE PollFailed(u, "timeout")

\* The timer of poll fires at time t: the delay is doubled and the loop goes on.
PollWoken(k, t) == PollLoop([k EXCEPT !.delay = NextDelay(k.delay)], t)

\* getMic() returned a stream at time t: startInitiator makes its connection
\* and its offer and sends PUT offer; startReceiver calls poll.
MicGranted(k, t) ==
    LET u == [k EXCEPT !.lsv = "stream", !.micLive = TRUE]
    IN IF k.role = "initiator"
         THEN [u EXCEPT !.pcv = "conn", !.connOpen = TRUE, !.at = "putOffer"]
         ELSE PollBegin(u, t)

\* getMic() returned null.
MicDenied(k) == [k EXCEPT !.ui = "Microphone access required", !.at = "end"]

\* The fetch of PUT offer completes (its status is not looked at).
OfferPutDone(k, t) == PollBegin([k EXCEPT !.ui = "Waiting for answer..."], t)

\* The fetch of PUT answer completes with this status.
AnswerPutDone(k, status) ==
    IF status = 409 THEN Cleaned([k EXCEPT !.ui = "Room occupied", !.at = "end"])
    ELSE IF ~(status >= 200 /\ status <= 299)
      THEN Cleaned([k EXCEPT !.ui = "Link expired", !.at = "end"])
    ELSE [k EXCEPT !.ui = "Establishing connection...", !.at = "established"]

\* POST /v1/rooms answered with this token.
RoomCreated(k, token) ==
    [k EXCEPT !.token = token, !.ui = "Ready. Send the link to your partner",
              !.at = "getMic"]

\* init() on the path /: the page waits for the click on copyBtn.
InitiatorPage == [NoClient EXCEPT !.role = "initiator"]

\* init() on the path /room/{token}: startReceiver(token) up to getMic().
ReceiverPage(token) ==
    [NoClient EXCEPT !.role = "receiver", !.token = token,
                     !.ui = "Connecting...", !.at = "getMic"]

\* --------------------------------------------- the client against any relay

\* How much later than the earliest possible a response or a timer comes.
Lag == {0, 250}

\* The statuses a fetch of poll may meet, and those of PUT answer.
PollStatuses == {200, 404, 429, 500}

PutStatuses == {204, 404, 409}

\* The click on copyBtn: startInitiator sends POST /v1/rooms.
Click(c) ==
    /\ cl[c].role = "initiator" /\ cl[c].at = "init"
    /\ cl' = [cl EXCEPT ![c].at = "creating"]
    /\ UNCHANGED <<now, rooms, heap, req>>

EnvRoomCreated(c) ==
    /\ cl[c].at = "creating"
    /\ cl' = [cl EXCEPT ![c] = RoomCreated(cl[c], 1)]
    /\ UNCHANGED <<now, rooms, heap, req>>

EnvMic(c) ==
    /\ cl[c].at = "getMic"
    /\ \E ok \in BOOLEAN, lag \in Lag :
         /\ now' = now + lag
         /\ cl' = [cl EXCEPT ![c] = IF ok THEN MicGranted(cl[c], now + lag)
                                        ELSE MicDenied(cl[c])]
    /\ UNCHANGED <<rooms, heap, req>>

EnvOfferPut(c) ==
    /\ cl[c].at = "putOffer"
    /\ cl' = [cl EXCEPT ![c] = OfferPutDone(cl[c], now)]
    /\ UNCHANGED <<now, rooms, heap, req>>

EnvPollResp(c) ==
    /\ cl[c].at = "fetching"
    /\ \E status \in PollStatuses, doc \in Docs, lag \in Lag :
         /\ now' = now + lag
         /\ cl' = [cl EXCEPT ![c] = PollResponse(cl[c], status, doc, now + lag)]
    /\ UNCHANGED <<rooms, heap, req>>

\* setTimeout(r, delay) fires, at its due time or later.
EnvPollWake(c) ==
    /\ cl[c].at = "sleeping"
    /\ \E lag \in Lag :
         /\ now' = Max(now, cl[c].wakeAt) + lag
         /\ cl' = [cl EXCEPT ![c] = PollWoken(cl[c], Max(now, cl[c].wakeAt) + lag)]
    /\ UNCHANGED <<rooms, heap, req>>

EnvAnswerPut(c) ==
    /\ cl[c].at = "putAnswer"
    /\ \E status \in PutStatuses :
         cl' = [cl EXCEPT ![c] = AnswerPutDone(cl[c], status)]
    /\ UNCHANGED <<now, rooms, heap, req>>

\* The click on endBtn, which is shown from the end of the room creation
\* (startInitiator) or from the start (startReceiver) on.
EndClick(c) ==
    /\ cl[c].role # "off" /\ cl[c].at \notin {"init", "creating"}
    /\ cl' = [cl EXCEPT ![c] =
                [Cleaned(cl[c]) EXCEPT
                   !.ui = "Call ended",
                   !.endedInPoll = @ \/ cl[c].at \in {"fetching", "sleeping"}]]
    /\ UNCHANGED <<now, rooms, heap, req>>

\* The steps of poll.
EnvPollStep == \E c \in Clients : EnvPollResp(c) \/ EnvPollWake(c)

NextClient ==
    \/ \E c \in Clients : Click(c)
    \/ \E c \in Clients : EnvRoomCreated(c)
    \/ \E c \in Clients : EnvMic(c)
    \/ \E c \in Clients : EnvOfferPut(c)
    \/ \E c \in Clients : EnvPollResp(c)
    \/ \E c \in Clients : EnvPollWake(c)
    \/ \E c \in Clients : EnvAnswerPut(c)
    \/ \E c \in Clients : EndClick(c)

\* One page, opened on / or on /room/{token}.
InitClient ==
    /\ now = 0
    /\ rooms = {}
    /\ heap = [t \in Tokens |-> NoRoom]
    /\ req = [r \in Reqs |-> NoReq]
    /\ \E page \in {InitiatorPage, ReceiverPage(1)} :
         cl = [c \in Clients |-> IF c = 1 THEN page ELSE NoClient]

\* Every fetch of poll completes and every timer fires.
SpecClient == InitClient /\ [][NextClient]_vars /\ WF_vars(EnvPollStep)

\* ------------------------------------------- the clients against the relay
\* Page 1 is opened on / and the others on the link it was given; request c
\* is the PUT of page c.

\* Timers fired per poll.
MaxMisses == 1

\* pc.localDescription.sdp of page c.
LocalSdp(c) == IF c % 2 = 1 THEN "A" ELSE "B"

\* body: JSON.stringify({sdp: pc.localDescription.sdp})
ClientBody(c) == [text |-> JSONStringify(LocalSdp(c)), len |-> 11]

\* POST /v1/rooms is handled and its response read by startInitiator.
PostRooms(c) ==
    /\ cl[c].at = "creating"
    /\ RoomMade
    /\ cl' = [cl EXCEPT ![c] = RoomCreated(cl[c], NewToken)]
    /\ UNCHANGED <<now, req>>

\* The link of the initiator's room is opened in another page.
OpenRoom(c) ==
    /\ cl[c].role = "off"
    /\ \E i \in Clients :
         /\ cl[i].role = "initiator" /\ cl[i].token \in Issued
         /\ cl' = [cl EXCEPT ![c] = ReceiverPage(cl[i].token)]
    /\ UNCHANGED <<now, rooms, heap, req>>

\* The PUT of page c reaches the relay: its handler runs up to its response
\* or to the await of readJson.
PutArrives(c) ==
    /\ cl[c].at \in {"putOffer", "putAnswer"}
    /\ req[c].pc = "idle"
    /\ req' = [req EXCEPT ![c] =
                 IF cl[c].at = "putOffer"
                   THEN PutOfferHead(Arrived("publishOffer", cl[c].token),
                                     ClientBody(c))
                   ELSE PutAnswerHead(Arrived("publishAnswer", cl[c].token),
                                      ClientBody(c))]
    /\ rooms' = GetRoomEvict(cl[c].token)
    /\ UNCHANGED <<now, heap, cl>>

\* The response to the PUT of page c reaches the page.
PutAnswered(c) ==
    /\ cl[c].at \in {"putOffer", "putAnswer"}
    /\ req[c].pc = "done" /\ req[c].status # 0
    /\ cl' = [cl EXCEPT ![c] = IF cl[c].at = "putOffer"
                                 THEN OfferPutDone(cl[c], now)
                                 ELSE AnswerPutDone(cl[c], req[c].status)]
    /\ UNCHANGED <<now, rooms, heap, req>>

\* What the relay answers to the GET of the poll of page c.
PollAnswer(c) ==
    IF cl[c].role = "initiator"
      THEN GetAnswerResp(Arrived("readAnswer", cl[c].token))
      ELSE GetOfferResp(Arrived("readOffer", cl[c].token))

\* The GET of the poll of page c is handled and its response (read with
\* resp.json()) reaches the page.
PollServed(c) ==
    /\ cl[c].at = "fetching"
    /\ cl' = [cl EXCEPT ![c] =
                PollResponse(cl[c], PollAnswer(c).status,
                             JSONParse(PollAnswer(c).rtext).sdp, now)]
    /\ rooms' = GetRoomEvict(cl[c].token)
    /\ UNCHANGED <<now, heap, req>>

\* The timer of the poll of page c fires, when due or later.
TimerFired(c) ==
    /\ cl[c].at = "sleeping"
    /\ cl[c].misses <= MaxMisses
    /\ now' = Max(now, cl[c].wakeAt)
    /\ cl' = [cl EXCEPT ![c] = PollWoken(cl[c], Max(now, cl[c].wakeAt))]
    /\ UNCHANGED <<rooms, heap, req>>

NextE2E ==
    \/ \E c \in Clients : Click(c)
    \/ \E c \in Clients : PostRooms(c)
    \/ \E c \in Clients : OpenRoom(c)
    \/ \E c \in Clients : EnvMic(c)
    \/ \E c \in Clients : PutArrives(c)
    \/ \E r \in Reqs : BodyEnd(r)
    \/ \E c \in Clients : PutAnswered(c)
    \/ \E c \in Clients : PollServed(c)
    \/ \E c \in Clients : TimerFired(c)

InitE2E ==
    /\ now = 0
    /\ rooms = {}
    /\ heap = [t \in Tokens |-> NoRoom]
    /\ req = [r \in Reqs |-> NoReq]
    /\ cl = [c \in Clients |-> IF c = 1 THEN InitiatorPage ELSE NoClient]

SpecE2E == InitE2E /\ [][NextE2E]_vars

\* ------------------------------------------------------------------ claims

RoomOps == {"publishOffer", "publishAnswer", "readOffer", "readAnswer", "status"}

\* The room of token t is live: created and not past its ttl.
Live(t) == t \in Issued /\ ~Expired(heap[t])

\* Request r is an op on token t that was answered 204.
Succeeded(r, op, t) ==
    req[r].op = op /\ req[r].tok = t /\ req[r].status = 204

\* The document a body submits (Undefined when it has none).
DocOf(body) == ReadJsonValue(body).sdp

\* This step is the arrival of request r.
Arrives(r) == req[r].pc = "idle" /\ req'[r].pc # "idle"

\* This step ends the handler of request r, which was reading its body.
Returns(r) == req[r].pc = "reading" /\ req'[r].pc = "done"

\* C1: of the publishAnswer requests on one room, never two receive success
\* (204): one wins and the others are told conflict.
C1_OneAnswerSucceeds ==
    \A t \in Tokens : \A r1, r2 \in Reqs :
        Succeeded(r1, "publishAnswer", t) /\ Succeeded(r2, "publishAnswer", t)
            => r1 = r2

\* C2: of the publishOffer requests on one room, at most one ever receives
\* success (204).
C2_OneOfferSucceeds ==
    \A t \in Tokens : \A r1, r2 \in Reqs :
        Succeeded(r1, "publishOffer", t) /\ Succeeded(r2, "publishOffer", t)
            => r1 = r2

StateRank(st) ==
    CASE st = "none" -> 0
      [] st = "created" -> 1
      [] st = "offer_set" -> 2
      [] st = "answer_set" -> 3

\* C3: a room's state is monotonic: every step leaves it as it is or moves it
\* one step along created -> offer_set -> answer_set.
C3_StateMonotonic ==
    [][\A t \in Tokens :
          \/ heap'[t].state = heap[t].state
          \/ StateRank(heap'[t].state) = StateRank(heap[t].state) + 1]_vars

\* C4: a descriptor that has been set never changes afterwards.
C4_DescriptorsWrittenOnce ==
    [][\A t \in Tokens :
          /\ heap[t].offerSDP # Undefined
                => heap'[t].offerSDP = heap[t].offerSDP
          /\ heap[t].answerSDP # Undefined
                => heap'[t].answerSDP = heap[t].answerSDP]_vars

\* C5: a readAnswer on a live room is answered 404 when no publishAnswer on
\* the room has succeeded yet, and 200 with exactly d when a publishAnswer
\* with document d has succeeded.
C5_ReadAnswerExact ==
    [][\A r \in Reqs :
          (Arrives(r) /\ req'[r].op = "readAnswer" /\ Live(req'[r].tok)) =>
            LET t == req'[r].tok
                won == {q \in Reqs : Succeeded(q, "publishAnswer", t)}
            IN IF won = {}
                 THEN req'[r].status = 404
                 ELSE \A q \in won :
                        DocOf(req[q].body) \in Docs =>
                          /\ req'[r].status = 200
                          /\ JSONParse(req'[r].rtext).sdp = DocOf(req[q].body)]_vars

\* C6: a readOffer on a live room is answered 404 while the state is created,
\* and 200 with exactly d, in offer_set and in answer_set, when a publishOffer
\* with document d has succeeded.
C6_ReadOfferExact ==
    [][\A r \in Reqs :
          (Arrives(r) /\ req'[r].op = "readOffer" /\ Live(req'[r].tok)) =>
            LET t == req'[r].tok
            IN /\ heap[t].state = "created" => req'[r].status = 404
               /\ \A q \in Reqs :
                    (Succeeded(q, "publishOffer", t) /\ DocOf(req[q].body) \in Docs)
                      => /\ req'[r].status = 200
                         /\ JSONParse(req'[r].rtext).sdp = DocOf(req[q].body)]_vars

\* C7 as stated: every operation that arrives at a time t >= T + ttl on a
\* room created at T is answered 404 at once.
C7_NotFoundFromTtl ==
    [][\A r \in Reqs :
          (/\ Arrives(r)
           /\ req'[r].op \in RoomOps
           /\ req'[r].tok \in Issued
           /\ now - heap[req'[r].tok].createdAt >= heap[req'[r].tok].ttlMs)
            => req'[r].pc = "done" /\ req'[r].status = 404]_vars

\* C7 as amended: every operation that arrives at a time t > T + ttl on a
\* room created at T is answered 404 at once, whatever the room's state and
\* whether or not cleanup has removed it.
C7_NotFoundAfterTtl ==
    [][\A r \in Reqs :
          (/\ Arrives(r)
           /\ req'[r].op \in RoomOps
           /\ req'[r].tok \in Issued
           /\ now - heap[req'[r].tok].createdAt > heap[req'[r].tok].ttlMs)
            => req'[r].pc = "done" /\ req'[r].status = 404]_vars

\* A status request on a room that create-room returned, which had reached
\* offer_set and which cleanup had not removed, was answered 404: it came
\* after the ttl.
C7_Witness ==
    \E r \in Reqs :
        /\ req[r].op = "status"
        /\ req[r].tok \in Issued
        /\ req[r].status = 404
        /\ heap[req[r].tok].state = "offer_set"
        /\ now - heap[req[r].tok].createdAt > ROOM_TTL_MS

\* C8: no publish succeeds on an expired room: no step sends 204 for, or
\* writes a descriptor of, a room that is past its ttl.
C8_NoSuccessWhenExpired ==
    [][\A r \in Reqs :
          (Returns(r) /\ Expired(heap[req[r].tok])) =>
            /\ req'[r].status # 204
            /\ heap'[req[r].tok] = heap[req[r].tok]]_vars

\* The value readJson gets from the body is not a document: the text does not
\* parse, or parses to an object with no sdp.
Malformed(body) ==
    LET v == ReadJsonValue(body)
    IN ~v.ok \/ (v.t = "object" /\ v.sdp = Undefined)

\* C9: a publish whose body is unparseable or has no sdp is answered 400 and
\* leaves the room as it was.
C9_MalformedIs400 ==
    [][\A r \in Reqs :
          (/\ Returns(r)
           /\ req[r].body.len <= MAX_BODY_SIZE
           /\ Malformed(req[r].body)
           /\ Live(req[r].tok))
            => /\ req'[r].status = 400
               /\ heap' = heap]_vars

\* C10: a request whose handler has returned, with nothing left to run for
\* it, has been sent a response.
C10_EveryRequestAnswered ==
    \A r \in Reqs : req[r].pc = "done" => req[r].status # 0


\* C11: a publish answered 409 leaves the room map and every room as they
\* were; a publishAnswer on a live room in state created and a publishOffer on
\* a live room not in state created are answered 409 at once, before any body
\* is read.
C11_ConflictChangesNothing ==
    [][\A r \in Reqs :
          /\ (req[r].status # 409 /\ req'[r].status = 409)
                => heap' = heap /\ rooms' = rooms
          /\ (/\ Arrives(r)
              /\ req'[r].op = "publishAnswer"
              /\ Live(req'[r].tok)
              /\ heap[req'[r].tok].state = "created")
                => req'[r].pc = "done" /\ req'[r].status = 409
          /\ (/\ Arrives(r)
              /\ req'[r].op = "publishOffer"
              /\ Live(req'[r].tok)
              /\ heap[req'[r].tok].state # "created")
                => req'[r].pc = "done" /\ req'[r].status = 409]_vars

\* A publishAnswer was answered 409 and the room is in state created with
\* no descriptor.
C11_Witness ==
    \E r \in Reqs :
        /\ req[r].op = "publishAnswer"
        /\ req[r].status = 409
        /\ req[r].tok \in Issued
        /\ heap[req[r].tok].state = "created"
        /\ heap[req[r].tok].offerSDP = Undefined
        /\ heap[req[r].tok].answerSDP = Undefined

\* C13: a status request on a live room, e = now - createdAt <= ttl, is
\* answered 200 with the room's state and
\* expiresInSec = max(0, floor((ttl - e) / 1000)), which is in 0..120.
C13_StatusRemaining ==
    [][\A r \in Reqs :
          (Arrives(r) /\ req'[r].op = "status" /\ Live(req'[r].tok)) =>
            LET room == heap[req'[r].tok]
                e == now - room.createdAt
                left == (ROOM_TTL_MS - e) \div 1000
            IN /\ e <= ROOM_TTL_MS
               /\ req'[r].status = 200
               /\ req'[r].rstate = room.state
               /\ req'[r].rexp = (IF left > 0 THEN left ELSE 0)
               /\ req'[r].rexp >= 0
               /\ req'[r].rexp <= 120]_vars

\* A status request was answered at e = 1 ms with expiresInSec = 119, the
\* floor of 119.999.
C13_Witness ==
    \E r \in Reqs :
        /\ req[r].op = "status"
        /\ req[r].status = 200
        /\ req[r].rexp = 119
        /\ req[r].tok \in Issued
        /\ now - heap[req[r].tok].createdAt = 1

\* C14: an operation on a token that create-room never returned is answered
\* 404 at once, before any body is read, creates no room and changes none.
C14_UnknownTokenNotFound ==
    [][\A r \in Reqs :
          (Arrives(r) /\ req'[r].op \in RoomOps /\ req'[r].tok \notin Issued) =>
            /\ req'[r].pc = "done"
            /\ req'[r].status = 404
            /\ heap' = heap
            /\ rooms' = rooms]_vars

\* A publishAnswer on an unknown token was answered 404 while a room in
\* state offer_set, which would have accepted it, exists.
C14_Witness ==
    \E r \in Reqs :
        /\ req[r].op = "publishAnswer"
        /\ req[r].tok = BogusToken
        /\ req[r].status = 404
        /\ \E t \in rooms : heap[t].state = "offer_set"

\* What each of the five operations answers at once to a request on token
\* tok (with body b, were it read), and the live rooms it leaves in the map.
HeadAnswers(tok, b) ==
    << PutOfferHead(Arrived("publishOffer", tok), b),
       PutAnswerHead(Arrived("publishAnswer", tok), b),
       GetOfferResp(Arrived("readOffer", tok)),
       GetAnswerResp(Arrived("readAnswer", tok)),
       GetStatusResp(Arrived("status", tok)),
       {t \in GetRoomEvict(tok) : ~Expired(heap[t])} >>

\* C18: a step that only deletes rooms from the map (a sweep) deletes only
\* rooms getRoom reports absent, keeps every room with
\* now - createdAt <= ttl and alters no room, and after it every operation
\* on every token is answered as it would have been before it.
C18_SweepChangesNoAnswer ==
    [][(rooms' # rooms /\ rooms' \subseteq rooms /\ req' = req) =>
          /\ heap' = heap
          /\ \A t \in rooms \ rooms' : ~GetRoomFound(t)
          /\ \A t \in rooms :
                now - heap[t].createdAt <= ROOM_TTL_MS => t \in rooms'
          /\ \A tok \in ReqTokens, b \in Bodies :
                HeadAnswers(tok, b)' = HeadAnswers(tok, b)]_vars

\* cleanup has deleted an expired room that no request had touched.
C18_Witness ==
    /\ \A r \in Reqs : req[r].pc = "idle"
    /\ \E t \in Issued : t \notin rooms /\ Expired(heap[t])

\* C19: in every room, state = created implies both descriptors unset,
\* offer_set implies offerSDP set and answerSDP unset, answer_set implies
\* both set.
C19_StateMatchesDescriptors ==
    \A t \in Issued :
        LET room == heap[t]
            hasOffer == room.offerSDP # Undefined
            hasAnswer == room.answerSDP # Undefined
        IN /\ room.state = "created" => ~hasOffer /\ ~hasAnswer
           /\ room.state = "offer_set" => hasOffer /\ ~hasAnswer
           /\ room.state = "answer_set" => hasOffer /\ hasAnswer

Polling(c) == cl[c].at \in {"fetching", "sleeping"}

\* Client c begins a read attempt of poll in this step.
BeginsAttempt(c) == cl[c].at # "fetching" /\ cl'[c].at = "fetching"

\* C15: poll(url, ttl) started at time S never begins a read attempt at a
\* time >= S + ttl; it reports timeout only when the clock has reached
\* S + ttl; and it always ends: with the document after a 200, with the error
\* after a status that is neither 200 nor 404, and with timeout otherwise.
C15_PollWithinWindow ==
    /\ [][\A c \in Clients :
            BeginsAttempt(c) => now' < cl'[c].since + CLIENT_ROOM_TTL_MS]_vars
    /\ [](\A c \in Clients :
            /\ cl[c].outcome = "timeout"
                 => now >= cl[c].since + CLIENT_ROOM_TTL_MS
            /\ cl[c].outcome = "ok" => cl[c].last = 200
            /\ cl[c].outcome = "error" => cl[c].last \notin {200, 404})
    /\ \A c \in Clients :
         Polling(c) ~> (~Polling(c) /\ cl[c].outcome \in {"ok", "error", "timeout"})

\* A poll that met only 404 reports timeout at the very instant S + ttl.
C15_Witness ==
    \E c \in Clients :
      /\ cl[c].outcome = "timeout" /\ cl[c].misses > 1 /\ cl[c].last = 404
      /\ now = cl[c].since + CLIENT_ROOM_TTL_MS

\* min(500 * 2^(k-1), 2000), the power cut where the product is far above 2000.
BackoffMs(k) == IF k > 20 THEN 2000 ELSE Min(500 * 2^(k - 1), 2000)

\* The fetch of client c is answered 404 in this step and the timer is set.
StartsWait(c) == cl[c].at = "fetching" /\ cl'[c].at = "sleeping"

\* C16: in poll, the wait set after the k-th consecutive 404 is
\* min(500 * 2^(k-1), 2000) ms: 500, 1000, 2000, 2000, ...
C16_BackoffSchedule ==
    [][\A c \in Clients :
         StartsWait(c) =>
           /\ cl'[c].misses = cl[c].misses + 1
           /\ cl'[c].wakeAt - now' = BackoffMs(cl'[c].misses)]_vars

\* The fourth miss in a row has just set a wait at the ceiling.
C16_Witness ==
    \E c \in Clients :
      /\ cl[c].at = "sleeping" /\ cl[c].misses = 4
      /\ cl[c].wakeAt - now = 2000

\* The fetch of client c completes in this step (with status cl'[c].last).
GetsResponse(c) == cl[c].at = "fetching" /\ cl'[c].at # "fetching"

\* C17: in poll, a response is followed by the timer and a further attempt
\* only when its status is 404; on the first response whose status is neither
\* 200 nor 404, poll ends at once with the outcome error (shown as 'Connection
\* failed', where a timeout is shown as 'Link expired'), and no read attempt
\* follows.
C17_OnlyNotFoundRetried ==
    /\ [][\A c \in Clients :
            GetsResponse(c) =>
              /\ cl'[c].at = "sleeping" <=> cl'[c].last = 404
              /\ cl'[c].last \notin {200, 404}
                   => /\ cl'[c].outcome = "error" /\ cl'[c].at = "end"
                      /\ cl'[c].ui = "Connection failed"]_vars
    /\ [](\A c \in Clients :
            cl[c].outcome = "error" => ~Polling(c) /\ cl[c].ui # "Link expired")

\* A poll that was answered 404 twice and then 500 has ended with the error.
C17_Witness ==
    \E c \in Clients :
      /\ cl[c].outcome = "error" /\ cl[c].last = 500 /\ cl[c].misses = 2
      /\ cl[c].at = "end"

\* C20: with one initiator and any number of responders on its room, every
\* responder that shows 'Establishing connection...' (its PUT answer was not
\* rejected) published exactly the answer document the initiator's poll
\* retrieved; a responder that has finished and whose answer the initiator did
\* not retrieve shows 'Room occupied' or 'Link expired'.
C20_EndToEndAgreement ==
    \A i, c \in Clients :
      (/\ cl[i].role = "initiator" /\ cl[i].outcome = "ok"
       /\ cl[c].role = "receiver" /\ cl[c].token = cl[i].token)
        => /\ cl[c].ui = "Establishing connection..."
                => cl[i].got = LocalSdp(c)
           /\ (cl[c].at \in {"established", "end"} /\ cl[c].outcome = "ok"
                 /\ cl[i].got # LocalSdp(c))
                => cl[c].ui \in {"Room occupied", "Link expired"}

\* C21: once the handler of endBtn has run while the poll of a client was
\* pending, the client holds no peer connection and no media stream in any
\* later state (pc and localStream are null, nothing is open or running) and
\* it sends no PUT to the relay afterwards (a PUT of such a client that is
\* under way was sent after the click, as poll comes before the PUT of
\* startReceiver and after that of startInitiator).
C21_EndIsFinal ==
    \A c \in Clients :
      cl[c].endedInPoll
        => /\ cl[c].pcv = "null" /\ ~cl[c].connOpen
           /\ cl[c].lsv = "null" /\ ~cl[c].micLive
           /\ cl[c].at \notin {"putOffer", "putAnswer"}
====
